---- MODULE Spec2Model ----
(***************************************************************************)
(* Model of format_events.py: read_from_eventhub, the live-read session.   *)
(*                                                                         *)
(* Two threads are modelled.  The foreground thread runs the body of       *)
(* read_from_eventhub (probe, start of the receive thread, wait on `done`, *)
(* close, bounded join, final print and return).  The receive thread runs  *)
(* the transport's receive loop, which calls on_event_batch and on_error   *)
(* synchronously, one callback at a time.  The transport itself is outside *)
(* the repository: what it delivers, and when it stops, is unconstrained.  *)
(* Time is a clock `now` in seconds that advances only while the           *)
(* foreground thread is inside one of its two timed waits.                 *)
(*                                                                         *)
(* A second specification, MainSpec, models main, the command line of the  *)
(* tool, run again and again over the same files: the three workflows,     *)
(* load_events and save_events with the JSON text they read and write.     *)
(* There read_from_eventhub is one step with its two outcomes.             *)
(***************************************************************************)
EXTENDS Integers, Sequences, FiniteSets, TLC

\* ---------------------------------------------------------------- bounds
MaxPartitions == 2      \* the probe discovers 0..MaxPartitions partitions
MaxWaitTime == 1        \* max_wait_time is drawn from 1..MaxWaitTime
MaxRecords == 2         \* records the transport delivers in one session
Step == 20              \* largest advance of the clock in one step

\* ------------------------------------------------------ program constants
FIXED_GRACE == 30       \* "+ 30" of overall_timeout
JOIN_TIMEOUT == 5       \* receive_thread.join(timeout=5)
EXIT_FAILURE == 1       \* sys.exit(1)
EXIT_USAGE == 2         \* the status parser.error exits with

NoPartition == "?"      \* pid used by on_error when partition_context is None
NoContext == "None"     \* partition_context = None
NoExit == <<>>          \* the statuses given to sys.exit: none so far
NoArg == "None"         \* an option that is not on the command line (None)
NoCompare == <<>>       \* --compare is not on the command line (None)

VARIABLES
    pc,                      \* position of the foreground thread
    now,                     \* clock, seconds
    max_wait_time,           \* argument of read_from_eventhub
    partition_ids,           \* result of client.get_partition_ids()
    idle_partitions,         \* the set idle_partitions
    done,                    \* threading.Event: is it set
    all_records,             \* the list all_records
    events_received,         \* the counter events_received
    thread,                  \* receive_thread: "none", "alive", "finished"
    cb,                      \* the callback the receive thread is in / was last in
    closeCount,              \* number of calls of client.close()
    exitStatus,              \* the statuses given to sys.exit, at most one
    timing,                  \* start of the wait, its deadline, its end, ...
    result,                  \* what read_from_eventhub printed and returned
    delivered,               \* history: number of records handed to on_event_batch
    reported,                \* history: partitions that reported empty batch / error
    mpc,                     \* position of main
    args,                    \* the parsed command line
    files,                   \* the files there are: path -> text
    ran,                     \* the workflows this run of main has started
    mainExit,                \* the status main's process exited with, at most one
    raised,                  \* the exception that ended main, or "none"
    main_records,            \* what main handed to compare_records / print_formatted
    lastSaved                \* history: path -> the list save_events last wrote there

mainVars == <<mpc, args, files, ran, mainExit, raised, main_records, lastSaved>>

readVars == <<pc, now, max_wait_time, partition_ids,
              idle_partitions, done, all_records, events_received, thread, cb,
              closeCount, exitStatus, timing, result, delivered, reported>>

vars == <<pc, now, max_wait_time, partition_ids,
          idle_partitions, done, all_records, events_received, thread, cb,
          closeCount, exitStatus, timing, result, delivered, reported, mainVars>>

fgVars == <<pc, closeCount, exitStatus, timing, result>>
sessionVars == <<max_wait_time, partition_ids>>
drainVars == <<idle_partitions, done>>
bufferVars == <<all_records, events_received>>
historyVars == <<delivered, reported>>

\* ------------------------------------------------------------- helpers
Min(a, b) == IF a <= b THEN a ELSE b

\* A payload is one of the things the loop body of on_event_batch can meet:
\*   "records"    a JSON object: data.get("records", []) is its "records" list,
\*                or [] when it has no such key
\*   "nonjson"    text that json.loads rejects (json.JSONDecodeError)
\*   "nonobject"  a payload on which the loop body raises something other than
\*                json.JSONDecodeError: valid JSON that is no object (data.get
\*                raises AttributeError), an object whose "records" is null or
\*                a number (all_records.extend raises TypeError), or a body
\*                that body_as_str cannot decode (raised before the try)
PayloadKinds == {"records", "nonjson", "nonobject"}
RaisingKinds == {"nonobject"}

\* a record is <<partition, number>>, numbered in the order of delivery:
\* the k records delivered for partition pid after the first `first` ones
NewRecords(pid, first, k) == [j \in 1..k |-> <<pid, first + j>>]

\* The callback the receive thread is in, or was last in:
\*   status   "none": in no callback, the last one returned;
\*            "raised": in no callback, the last one was left by an exception;
\*            "called": on_event_batch entered with a non-empty batch;
\*            "loop": between two passes of its for loop;
\*            "count": all_records.extend done, events_received += pending
\*   pid      partition_context.partition_id
\*   count    len(records) of the event in hand
\*   last     the payload of the event the last pass handled; in no callback,
\*            what the last callback was: "empty" (on_event_batch with no
\*            events), "batch" (on_event_batch with events), "error"
\*            (on_error), or the payload that raised
\*   warned   the last pass printed the [warn] line
\* The argument `events` is read as the loop reaches each event: a pass draws
\* the payload of its event, and the loop ends after any pass.
NoCallback == [status |-> "none", pid |-> NoContext, count |-> 0, last |-> "none",
               warned |-> FALSE]

NoTiming == [start |-> 0, deadline |-> 0, waitEnd |-> 0, joinDeadline |-> 0,
             timedOut |-> FALSE]

NoResult == [returned |-> FALSE, using_connection_string |-> FALSE, printed |-> 0,
             advisory |-> FALSE, len |-> 0]

InCallback == cb.status \in {"called", "loop", "count"}

\* a slip: the grace period counted once per partition as well
overall_timeout_GracePerPartition ==
    (max_wait_time + FIXED_GRACE) * Cardinality(partition_ids) + FIXED_GRACE

\* overall_timeout = max_wait_time * len(partition_ids) + 30
overall_timeout == max_wait_time * Cardinality(partition_ids) + FIXED_GRACE

\* Python's None, as a value json works with
PyNone == <<"none", "None">>

\* the command line with no option on it
NoArgs == [compare |-> NoCompare, file |-> NoArg, eventhub_namespace |-> NoArg,
           connection_string |-> NoArg, eventhub_name |-> NoArg, save |-> NoArg]

\* no file at all: the function with no path in its domain
NoFiles == [path \in {} |-> <<>>]

\* ----------------------------------------------------------------- Init
Init ==
    /\ pc = "probe"
    /\ now = 0
    /\ max_wait_time \in 1..MaxWaitTime
    /\ partition_ids = {}
    /\ idle_partitions = {}
    /\ done = FALSE
    /\ all_records = <<>>
    /\ events_received = 0
    /\ thread = "none"
    /\ cb = NoCallback
    /\ closeCount = 0
    /\ exitStatus = NoExit
    /\ timing = NoTiming
    /\ result = NoResult
    /\ delivered = 0
    /\ reported = {}
    /\ mpc = "none"
    /\ args = NoArgs
    /\ files = NoFiles
    /\ ran = <<>>
    /\ mainExit = NoExit
    /\ raised = "none"
    /\ main_records = PyNone
    /\ lastSaved = NoFiles

\* the partition ids the transport knows: "0", "1", ...
PartitionIds(n) == {ToString(i) : i \in 0..(n - 1)}

\* ------------------------------------------------- the foreground thread
\* a slip: the failure path exits without client.close()
ProbeFails_NoClose ==
    /\ pc = "probe"
    /\ exitStatus' = <<EXIT_FAILURE>>
    /\ pc' = "exited"
    /\ UNCHANGED <<mainVars, now, sessionVars, drainVars, bufferVars, thread, cb, closeCount,
                   timing, result, historyVars>>

\* client.get_partition_ids() raises: close, print the error, sys.exit(1)
ProbeFails ==
    /\ pc = "probe"
    /\ closeCount' = closeCount + 1
    /\ exitStatus' = <<EXIT_FAILURE>>
    /\ pc' = "exited"
    /\ UNCHANGED <<mainVars, now, sessionVars, drainVars, bufferVars, thread, cb, timing,
                   result, historyVars>>

\* client.get_partition_ids() returns n ids; idle_partitions and done are created
ProbeSucceeds ==
    /\ pc = "probe"
    /\ \E n \in 0..MaxPartitions : partition_ids' = PartitionIds(n)
    /\ idle_partitions' = {}
    /\ done' = FALSE
    /\ pc' = "start"
    /\ UNCHANGED <<mainVars, now, max_wait_time, bufferVars, thread,
                   cb, closeCount, exitStatus, timing, result, historyVars>>

\* overall_timeout is computed, the receive thread is created and started,
\* and the foreground thread enters done.wait(timeout=overall_timeout)
StartThread ==
    /\ pc = "start"
    /\ thread' = "alive"
    /\ timing' = [timing EXCEPT !.start = now, !.deadline = now + overall_timeout]
    /\ pc' = "wait"
    /\ UNCHANGED <<mainVars, now, sessionVars, drainVars, bufferVars, cb, closeCount,
                   exitStatus, result, historyVars>>

\* done.wait returns because the event is set; then client.close(), and the
\* foreground thread enters receive_thread.join(timeout=5)
WaitSignalled ==
    /\ pc = "wait"
    /\ done
    /\ timing' = [timing EXCEPT !.waitEnd = now, !.joinDeadline = now + JOIN_TIMEOUT]
    /\ closeCount' = closeCount + 1
    /\ pc' = "join"
    /\ UNCHANGED <<mainVars, now, sessionVars, drainVars, bufferVars, thread, cb, exitStatus,
                   result, historyVars>>

\* a slip: the deadline path goes to the join without client.close()
WaitTimedOut_NoClose ==
    /\ pc = "wait"
    /\ ~done
    /\ now >= timing.deadline
    /\ timing' = [timing EXCEPT !.waitEnd = now, !.joinDeadline = now + JOIN_TIMEOUT,
                                !.timedOut = TRUE]
    /\ pc' = "join"
    /\ UNCHANGED <<mainVars, now, sessionVars, drainVars, bufferVars, thread, cb, closeCount,
                   exitStatus, result, historyVars>>

\* a slip: the deadline is treated as fatal, like the probe failure
WaitTimedOut_Exits ==
    /\ pc = "wait"
    /\ ~done
    /\ now >= timing.deadline
    /\ timing' = [timing EXCEPT !.waitEnd = now, !.timedOut = TRUE]
    /\ closeCount' = closeCount + 1
    /\ exitStatus' = <<EXIT_FAILURE>>
    /\ pc' = "exited"
    /\ UNCHANGED <<mainVars, now, sessionVars, drainVars, bufferVars, thread, cb, result,
                   historyVars>>

\* done.wait returns because overall_timeout seconds have passed; then
\* client.close(), and the foreground thread enters receive_thread.join(timeout=5)
WaitTimedOut ==
    /\ pc = "wait"
    /\ ~done
    /\ now >= timing.deadline
    /\ timing' = [timing EXCEPT !.waitEnd = now, !.joinDeadline = now + JOIN_TIMEOUT,
                                !.timedOut = TRUE]
    /\ closeCount' = closeCount + 1
    /\ pc' = "join"
    /\ UNCHANGED <<mainVars, now, sessionVars, drainVars, bufferVars, thread, cb, exitStatus,
                   result, historyVars>>

\* what the foreground thread does once join has returned: print the count,
\* print the advisory when events_received == 0 and no connection string was
\* used, return all_records (the list itself, no copy).
\* using_connection_string = bool(connection_string) is an input of the
\* session that nothing reads before this point: it is drawn here.
Finish ==
    /\ \E using_connection_string \in BOOLEAN :
         result' = [returned |-> TRUE,
                    using_connection_string |-> using_connection_string,
                    printed |-> events_received,
                    advisory |-> (events_received = 0 /\ ~using_connection_string),
                    len |-> Len(all_records)]
    /\ pc' = "returned"
    /\ UNCHANGED <<mainVars, now, sessionVars, drainVars, bufferVars, thread, cb, closeCount,
                   exitStatus, timing, historyVars>>

\* join returns because the receive thread has finished
JoinFinished ==
    /\ pc = "join"
    /\ thread = "finished"
    /\ Finish

\* a slip: receive_thread.join() without a timeout returns only when the
\* thread has finished
JoinTimedOut_NoTimeout ==
    /\ pc = "join"
    /\ thread = "finished"
    /\ Finish

\* join returns because its 5 seconds have passed; the thread may still run
JoinTimedOut ==
    /\ pc = "join"
    /\ thread # "finished"
    /\ now >= timing.joinDeadline
    /\ Finish

\* the clock advances while the foreground thread is in a timed wait: not past
\* the wait's deadline, and not at all once the wait can return
Tick ==
    /\ \/ /\ pc = "wait"
          /\ ~done
          /\ now < timing.deadline
          /\ now' = Min(now + Step, timing.deadline)
       \/ /\ pc = "join"
          /\ thread # "finished"
          /\ now < timing.joinDeadline
          /\ now' = Min(now + Step, timing.joinDeadline)
    /\ UNCHANGED <<mainVars, pc, sessionVars, drainVars, bufferVars, thread, cb, closeCount,
                   exitStatus, timing, result, historyVars>>

Foreground ==
    \/ ProbeFails \/ ProbeSucceeds \/ StartThread \/ WaitSignalled \/ WaitTimedOut
    \/ JoinFinished \/ JoinTimedOut

\* --------------------------------------------------- the receive thread
\* a slip: an empty batch of one partition marks every partition idle
IdleAfterEmptyBatch_MarksAll(pid) == idle_partitions \cup partition_ids \cup {pid}

\* on_event_batch with no events: idle_partitions.add(pid)
IdleAfterEmptyBatch(pid) == idle_partitions \cup {pid}

\* ... if len(idle_partitions) >= len(partition_ids): done.set()
DoneAfterEmptyBatch(pid) ==
    done \/ Cardinality(IdleAfterEmptyBatch(pid)) >= Cardinality(partition_ids)

\* on_error: pid = partition_context.partition_id if partition_context else "?"
ErrorPid(ctx) == IF ctx = NoContext THEN NoPartition ELSE ctx

\* on_error: idle_partitions.add(pid)
IdleAfterError(ctx) == idle_partitions \cup {ErrorPid(ctx)}

\* a slip: on_error records the partition but never sets done
DoneAfterError_NeverSet(ctx) == done

\* ... if len(idle_partitions) >= len(partition_ids): done.set()
DoneAfterError(ctx) ==
    done \/ Cardinality(IdleAfterError(ctx)) >= Cardinality(partition_ids)

\* history: partition p has reported an empty batch or an error
NoteReport(p) ==
    /\ reported' = reported \cup {p}
    /\ UNCHANGED delivered

\* on_event_batch(ctx, []) for partition p
OnEmptyBatchFor(p) ==
    /\ idle_partitions' = IdleAfterEmptyBatch(p)
    /\ done' = DoneAfterEmptyBatch(p)
    /\ cb' = [NoCallback EXCEPT !.last = "empty"]
    /\ NoteReport(p)
    /\ UNCHANGED <<mainVars, fgVars, now, sessionVars, bufferVars, thread>>

\* the transport calls on_event_batch(ctx, []) for a discovered partition
OnEmptyBatch ==
    /\ thread = "alive"
    /\ ~InCallback
    /\ \E p \in partition_ids : OnEmptyBatchFor(p)

\* on_error(ctx, error), ctx a partition context or None
OnErrorFor(ctx) ==
    /\ idle_partitions' = IdleAfterError(ctx)
    /\ done' = DoneAfterError(ctx)
    /\ cb' = [NoCallback EXCEPT !.last = "error"]
    /\ IF ctx = NoContext THEN UNCHANGED historyVars ELSE NoteReport(ctx)
    /\ UNCHANGED <<mainVars, fgVars, now, sessionVars, bufferVars, thread>>

\* the transport calls on_error, with a partition context or with None
OnError ==
    /\ thread = "alive"
    /\ ~InCallback
    /\ \E ctx \in partition_ids \cup {NoContext} : OnErrorFor(ctx)

\* a slip: a batch with events takes its partition out of the idle set
OnEventBatch_Reactivates ==
    /\ thread = "alive"
    /\ ~InCallback
    /\ \E p \in partition_ids :
         /\ cb' = [NoCallback EXCEPT !.status = "called", !.pid = p]
         /\ idle_partitions' = idle_partitions \ {p}
    /\ UNCHANGED <<mainVars, fgVars, now, sessionVars, done, bufferVars, thread,
                   historyVars>>

\* the transport calls on_event_batch(ctx, events) with len(events) >= 1
OnEventBatch ==
    /\ thread = "alive"
    /\ ~InCallback
    /\ \E p \in partition_ids :
         cb' = [NoCallback EXCEPT !.status = "called", !.pid = p]
    /\ UNCHANGED <<mainVars, fgVars, now, sessionVars, drainVars, bufferVars, thread,
                   historyVars>>

\* a slip: the records of an event are put in front of the list
HandleEvent_Prepends ==
    /\ cb.status \in {"called", "loop"}
    /\ \E kind \in PayloadKinds :
         \/ /\ kind \in RaisingKinds
            /\ \E unread \in 0..(MaxRecords - delivered) : delivered' = delivered + unread
            /\ cb' = [NoCallback EXCEPT !.status = "raised", !.last = kind]
            /\ UNCHANGED all_records
         \/ /\ kind = "nonjson"
            /\ cb' = [cb EXCEPT !.status = "loop", !.last = kind, !.warned = TRUE]
            /\ UNCHANGED <<all_records, delivered>>
         \/ /\ kind = "records"
            /\ \E k \in 0..(MaxRecords - delivered) :
                 LET records == NewRecords(cb.pid, delivered, k)
                 IN /\ delivered' = delivered + k
                    /\ all_records' = records \o all_records
                    /\ cb' = [cb EXCEPT !.status = "count", !.count = k,
                                        !.last = kind, !.warned = FALSE]
    /\ UNCHANGED <<mainVars, fgVars, now, sessionVars, drainVars, events_received, thread,
                   reported>>

\* one pass of the loop body up to all_records.extend(records), for an event
\* with the given payload:
\*   json.loads raises JSONDecodeError (caught: warning, next event), or
\*   something else is raised (not caught: the callback is left, and the
\*   events after this one, carrying `unread` records, are never looked at), or
\*   the records are appended
HandleEvent ==
    /\ cb.status \in {"called", "loop"}
    /\ \E kind \in PayloadKinds :
         \/ /\ kind \in RaisingKinds
            /\ \E unread \in 0..(MaxRecords - delivered) : delivered' = delivered + unread
            /\ cb' = [NoCallback EXCEPT !.status = "raised", !.last = kind]
            /\ UNCHANGED all_records
         \/ /\ kind = "nonjson"
            /\ cb' = [cb EXCEPT !.status = "loop", !.last = kind, !.warned = TRUE]
            /\ UNCHANGED <<all_records, delivered>>
         \/ /\ kind = "records"
            /\ \E k \in 0..(MaxRecords - delivered) :
                 LET records == NewRecords(cb.pid, delivered, k)
                 IN /\ delivered' = delivered + k
                    /\ all_records' = all_records \o records
                    /\ cb' = [cb EXCEPT !.status = "count", !.count = k,
                                        !.last = kind, !.warned = FALSE]
    /\ UNCHANGED <<mainVars, fgVars, now, sessionVars, drainVars, events_received, thread,
                   reported>>

\* events_received += len(records), and on to the next event
CountEvent ==
    /\ cb.status = "count"
    /\ events_received' = events_received + cb.count
    /\ cb' = [cb EXCEPT !.status = "loop", !.count = 0]
    /\ UNCHANGED <<mainVars, fgVars, now, sessionVars, drainVars, all_records, thread,
                   historyVars>>

\* the loop is over: print the progress line and return from the callback
FinishBatch ==
    /\ cb.status = "loop"
    /\ cb' = [NoCallback EXCEPT !.last = "batch"]
    /\ UNCHANGED <<mainVars, fgVars, now, sessionVars, drainVars, bufferVars, thread,
                   historyVars>>

\* client.receive_batch returns or raises: the receive thread ends
ThreadFinishes ==
    /\ thread = "alive"
    /\ ~InCallback
    /\ thread' = "finished"
    /\ UNCHANGED <<mainVars, fgVars, now, sessionVars, drainVars, bufferVars, cb, historyVars>>

Receive ==
    \/ OnEmptyBatch \/ OnError \/ OnEventBatch \/ HandleEvent \/ CountEvent
    \/ FinishBatch \/ ThreadFinishes

Next == Foreground \/ Tick \/ Receive

Spec == Init /\ [][Next]_vars

\* the scheduler runs the foreground thread and time passes
LiveSpec == Spec /\ WF_vars(Foreground) /\ WF_vars(Tick)

\* the session is over: read_from_eventhub has returned or the process has exited
Terminated == pc \in {"returned", "exited"}

TypeOK ==
    /\ pc \in {"probe", "exited", "start", "wait", "join", "returned"}
    /\ now \in Nat
    /\ thread \in {"none", "alive", "finished"}
    /\ done \in BOOLEAN
    /\ events_received \in Nat
    /\ delivered \in 0..MaxRecords

\* ------------------------------------------------------------ JSON files
\* Python values that json.loads produces and json.dump accepts, tagged:
\* a list carries the sequence of its items, a dict the sequence of its
\* <<key, value>> members in insertion order (keys are distinct strings)
PyStr(s) == <<"str", s>>
PyInt(n) == <<"int", n>>
PyList(items) == <<"list", items>>
PyDict(members) == <<"dict", members>>
IsList(v) == v[1] = "list"
IsDict(v) == v[1] = "dict"

\* the integers that occur in records
Numbers == 0..MaxRecords

\* the text of a file is a sequence of JSON tokens <<kind, text>> (white
\* space, which json.dump(indent=2) writes and json.load skips, is left out)
Punct(c) == <<"punct", c>>
StringToken(s) == <<"string", s>>
NumberToken(n) == <<"number", ToString(n)>>
NullToken == <<"literal", "null">>
\* a word that is no JSON literal
BadToken == <<"literal", "records">>

\* json.dumps(v): the tokens json.dump writes for v
RECURSIVE dumps(_)
dumps(v) ==
    LET RECURSIVE items(_)
        items(s) == IF s = <<>> THEN <<>>
                    ELSE dumps(Head(s))
                           \o (IF Len(s) > 1 THEN <<Punct(",")>> ELSE <<>>)
                           \o items(Tail(s))
        RECURSIVE members(_)
        members(s) == IF s = <<>> THEN <<>>
                      ELSE <<StringToken(Head(s)[1]), Punct(":")>> \o dumps(Head(s)[2])
                             \o (IF Len(s) > 1 THEN <<Punct(",")>> ELSE <<>>)
                             \o members(Tail(s))
    IN CASE v[1] = "none" -> <<NullToken>>
         [] v[1] = "str"  -> <<StringToken(v[2])>>
         [] v[1] = "int"  -> <<NumberToken(v[2])>>
         [] v[1] = "list" -> <<Punct("[")>> \o items(v[2]) \o <<Punct("]")>>
         [] v[1] = "dict" -> <<Punct("{")>> \o members(v[2]) \o <<Punct("}")>>

\* the outcome of a parse: the value read and the place of the next token,
\* or a failure (json.JSONDecodeError)
Parsed(v, next) == [ok |-> TRUE, value |-> v, next |-> next]
NotParsed == [ok |-> FALSE, value |-> PyNone, next |-> 0]

\* dict[key] = value: a key read twice keeps its place and takes the last value
SetItem(members, key, value) ==
    IF \E i \in 1..Len(members) : members[i][1] = key
    THEN [i \in 1..Len(members) |->
             IF members[i][1] = key THEN <<key, value>> ELSE members[i]]
    ELSE Append(members, <<key, value>>)

\* the JSON decoder: the value that starts at token i of text t
RECURSIVE parseValue(_, _), parseItems(_, _, _), parseMembers(_, _, _)
parseValue(t, i) ==
    IF i > Len(t) THEN NotParsed
    ELSE LET kind == t[i][1]
             text == t[i][2]
         IN CASE kind = "string" -> Parsed(PyStr(text), i + 1)
              [] kind = "number" ->
                   IF \E n \in Numbers : ToString(n) = text
                   THEN Parsed(PyInt(CHOOSE n \in Numbers : ToString(n) = text), i + 1)
                   ELSE NotParsed
              [] kind = "literal" ->
                   IF text = "null" THEN Parsed(PyNone, i + 1) ELSE NotParsed
              [] kind = "punct" ->
                   CASE text = "[" ->
                          IF i + 1 <= Len(t) /\ t[i + 1] = Punct("]")
                          THEN Parsed(PyList(<<>>), i + 2)
                          ELSE parseItems(t, i + 1, <<>>)
                     [] text = "{" ->
                          IF i + 1 <= Len(t) /\ t[i + 1] = Punct("}")
                          THEN Parsed(PyDict(<<>>), i + 2)
                          ELSE parseMembers(t, i + 1, <<>>)
                     [] OTHER -> NotParsed

\* the items of an array from token i on, `items` read so far
parseItems(t, i, items) ==
    LET item == parseValue(t, i)
    IN IF ~item.ok \/ item.next > Len(t) THEN NotParsed
       ELSE IF t[item.next] = Punct(",")
            THEN parseItems(t, item.next + 1, Append(items, item.value))
       ELSE IF t[item.next] = Punct("]")
            THEN Parsed(PyList(Append(items, item.value)), item.next + 1)
       ELSE NotParsed

\* the members of an object from token i on, `members` read so far
parseMembers(t, i, members) ==
    IF i + 1 > Len(t) \/ t[i][1] # "string" \/ t[i + 1] # Punct(":") THEN NotParsed
    ELSE LET member == parseValue(t, i + 2)
         IN IF ~member.ok \/ member.next > Len(t) THEN NotParsed
            ELSE IF t[member.next] = Punct(",")
                 THEN parseMembers(t, member.next + 1,
                                   SetItem(members, t[i][2], member.value))
            ELSE IF t[member.next] = Punct("}")
                 THEN Parsed(PyDict(SetItem(members, t[i][2], member.value)),
                             member.next + 1)
            ELSE NotParsed

\* json.loads(t): one value and nothing after it
loads(t) ==
    LET top == parseValue(t, 1)
    IN IF top.ok /\ top.next = Len(t) + 1 THEN top ELSE NotParsed

\* ------------------------------------------------------- files and main
\* the records a session returns and a file holds
RecordValues ==
    {PyDict(<< <<"metricName", PyStr("cpu_percent")>>, <<"total", PyInt(1)>> >>),
     PyDict(<< <<"metricName", PyStr("dtu_used")>>,
               <<"tags", PyList(<<PyNone, PyStr("")>>)>> >>)}

\* the lists of at most n records
RecordLists(n) == UNION {[1..k -> RecordValues] : k \in 0..n}

\* the files main is pointed at
Paths == {"a.json", "b.json"}

\* what a file holds before the tool has written it: the persisted form
\* {"records": [...]}, a bare top-level array, an object with no "records"
\* key, text that is no JSON
InitialTexts ==
    {dumps(PyDict(<< <<"records", PyList(list)>> >>)) : list \in RecordLists(1)}
        \cup {dumps(PyList(list)) : list \in RecordLists(1)}
        \cup {dumps(PyDict(<< <<"value", PyList(<<>>)>> >>)), <<BadToken>>}

\* the command lines: an option is absent, empty, or has a value
ArgsSet ==
    [compare : {NoCompare, <<"a.json", "b.json">>},
     file : {NoArg, "", "a.json"},
     eventhub_namespace : {NoArg, "ns"},
     connection_string : {NoArg, "", "cs"},
     eventhub_name : {NoArg, "", "hub"},
     save : {NoArg, "a.json"}]

\* bool(x) of an option that is None or a string
Truthy(x) == x # NoArg /\ x # ""

\* the outcome of a call: the value returned, or the exception raised
Returned(v) == [ok |-> TRUE, value |-> v, error |-> "none"]
Raised(e) == [ok |-> FALSE, value |-> PyNone, error |-> e]

\* d.get(key, default) of a dict d
Get(d, key, default) ==
    IF \E i \in 1..Len(d[2]) : d[2][i][1] = key
    THEN d[2][CHOOSE i \in 1..Len(d[2]) : d[2][i][1] = key][2]
    ELSE default

\* load_events(path):
\*   with open(path) as f: data = json.load(f)
\*   return data.get("records", data if isinstance(data, list) else [])
\* the attribute data.get is looked up before its arguments are evaluated
load_events(path) ==
    IF path \notin DOMAIN files THEN Raised("FileNotFoundError")
    ELSE LET data == loads(files[path])
         IN IF ~data.ok THEN Raised("JSONDecodeError")
            ELSE IF ~IsDict(data.value) THEN Raised("AttributeError")
            ELSE Returned(Get(data.value, "records",
                              IF IsList(data.value) THEN data.value ELSE PyList(<<>>)))

\* open(path, "w") and a write of text: the files there are afterwards
Written(fs, path, text) ==
    [p \in DOMAIN fs \cup {path} |-> IF p = path THEN text ELSE fs[p]]

\* a slip: the list is written as a bare top-level array
save_events_BareArray(list, path) == Written(files, path, dumps(list))

\* save_events(records, path): json.dump({"records": records}, f, indent=2)
save_events(list, path) ==
    Written(files, path, dumps(PyDict(<< <<"records", list>> >>)))

\* main is left by an exception nothing catches: traceback, status 1
Uncaught(e) ==
    /\ raised' = e
    /\ mainExit' = <<EXIT_FAILURE>>
    /\ mpc' = "exited"
    /\ main_records' = PyNone

\* main returns after compare_records / print_formatted of what it has
Shown(v) ==
    /\ main_records' = v
    /\ mpc' = "returned"
    /\ UNCHANGED <<mainExit, raised>>

\* mode 1: if args.compare: load both files, compare_records, return
MainCompare ==
    /\ mpc = "parse"
    /\ args.compare # NoCompare
    /\ ran' = Append(ran, "compare")
    /\ LET records_a == load_events(args.compare[1])
           records_b == load_events(args.compare[2])
       IN IF ~records_a.ok THEN Uncaught(records_a.error)
          ELSE IF ~records_b.ok THEN Uncaught(records_b.error)
          ELSE Shown(<<"pair", <<records_a.value, records_b.value>>>>)
    /\ UNCHANGED <<readVars, args, files, lastSaved>>

\* mode 2: if args.file: load the file, print_formatted, return
MainFile ==
    /\ mpc = "parse"
    /\ args.compare = NoCompare
    /\ Truthy(args.file)
    /\ ran' = Append(ran, "file")
    /\ LET loaded == load_events(args.file)
       IN IF ~loaded.ok THEN Uncaught(loaded.error) ELSE Shown(loaded.value)
    /\ UNCHANGED <<readVars, args, files, lastSaved>>

\* mode 3 is entered: args.eventhub_namespace or args.connection_string
LiveMode ==
    /\ args.compare = NoCompare
    /\ ~Truthy(args.file)
    /\ Truthy(args.eventhub_namespace) \/ Truthy(args.connection_string)

\* a slip: the check of --eventhub-name is missing, the read is started
MainUsageError_StartsRead ==
    /\ mpc = "parse"
    /\ LiveMode
    /\ ~Truthy(args.eventhub_name)
    /\ ran' = Append(ran, "live")
    /\ mpc' = "live"
    /\ UNCHANGED <<readVars, args, files, mainExit, raised, main_records, lastSaved>>

\* mode 3 without --eventhub-name: parser.error prints the usage and exits
MainUsageError ==
    /\ mpc = "parse"
    /\ LiveMode
    /\ ~Truthy(args.eventhub_name)
    /\ mainExit' = <<EXIT_USAGE>>
    /\ mpc' = "exited"
    /\ UNCHANGED <<readVars, args, files, ran, raised, main_records, lastSaved>>

\* mode 3: read_from_eventhub is called
MainLive ==
    /\ mpc = "parse"
    /\ LiveMode
    /\ Truthy(args.eventhub_name)
    /\ ran' = Append(ran, "live")
    /\ mpc' = "live"
    /\ UNCHANGED <<readVars, args, files, mainExit, raised, main_records, lastSaved>>

\* read_from_eventhub ends the process: the probe failed, sys.exit(1)
ReadExits ==
    /\ mpc = "live"
    /\ mainExit' = <<EXIT_FAILURE>>
    /\ mpc' = "exited"
    /\ UNCHANGED <<readVars, args, files, ran, raised, main_records, lastSaved>>

\* read_from_eventhub returns a list; if args.save: save_events(records,
\* args.save); print_formatted, return
ReadReturns ==
    /\ mpc = "live"
    /\ \E list \in RecordLists(MaxRecords) :
         /\ IF Truthy(args.save)
            THEN /\ files' = save_events(PyList(list), args.save)
                 /\ lastSaved' = Written(lastSaved, args.save, PyList(list))
            ELSE UNCHANGED <<files, lastSaved>>
         /\ Shown(PyList(list))
    /\ UNCHANGED <<readVars, args, ran>>

\* no mode: parser.print_help(), sys.exit(1)
MainNoMode ==
    /\ mpc = "parse"
    /\ args.compare = NoCompare
    /\ ~Truthy(args.file)
    /\ ~(Truthy(args.eventhub_namespace) \/ Truthy(args.connection_string))
    /\ mainExit' = <<EXIT_FAILURE>>
    /\ mpc' = "exited"
    /\ UNCHANGED <<readVars, args, files, ran, raised, main_records, lastSaved>>

\* the process of main is gone: what is left of the run is the files
ProcessEnds ==
    /\ mpc \in {"returned", "exited"}
    /\ mpc' = "none"
    /\ args' = NoArgs
    /\ ran' = <<>>
    /\ mainExit' = NoExit
    /\ raised' = "none"
    /\ main_records' = PyNone
    /\ UNCHANGED <<readVars, files, lastSaved>>

\* the tool is run, with some command line, over the files there are:
\* parser.parse_args()
Invoke ==
    /\ mpc = "none"
    /\ args' \in ArgsSet
    /\ mpc' = "parse"
    /\ UNCHANGED <<readVars, files, ran, mainExit, raised, main_records, lastSaved>>

\* before the tool is run for the first time: some files are there already
MainInit ==
    /\ pc = "probe"
    /\ now = 0
    /\ max_wait_time = 1
    /\ partition_ids = {}
    /\ idle_partitions = {}
    /\ done = FALSE
    /\ all_records = <<>>
    /\ events_received = 0
    /\ thread = "none"
    /\ cb = NoCallback
    /\ closeCount = 0
    /\ exitStatus = NoExit
    /\ timing = NoTiming
    /\ result = NoResult
    /\ delivered = 0
    /\ reported = {}
    /\ mpc = "none"
    /\ args = NoArgs
    /\ \E present \in SUBSET Paths : files \in [present -> InitialTexts]
    /\ ran = <<>>
    /\ mainExit = NoExit
    /\ raised = "none"
    /\ main_records = PyNone
    /\ lastSaved = NoFiles

MainNext ==
    \/ MainCompare \/ MainFile \/ MainUsageError \/ MainLive \/ ReadExits
    \/ ReadReturns \/ MainNoMode \/ ProcessEnds \/ Invoke

MainSpec == MainInit /\ [][MainNext]_vars

\* ------------------------------------------------------------- claims
Started == pc \in {"wait", "join", "returned"}

\* every discovered partition has reported an empty batch or an error
AllReported == partition_ids \subseteq reported

\* max_wait_time * partition_count + 30
SessionBudget == max_wait_time * Cardinality(partition_ids) + FIXED_GRACE

\* the transport has called a callback
CallbackSeen == cb # NoCallback

\* C1: after any sequence of callbacks, done is set if and only if every
\* discovered partition has reported at least one empty batch or one error.
C1_DoneIffAllReported == (Started /\ CallbackSeen) => (done <=> AllReported)

\* C2 as stated: from the start of the receive thread until
\* read_from_eventhub proceeds to return, the foreground thread waits at most
\* max_wait_time * partition_count + 30 seconds.
C2_WholeWaitWithinBudget ==
    pc = "returned" => now - timing.start <= SessionBudget

\* C2 amended: the wait on done lasts at most max_wait_time * partition_count
\* + 30 seconds, and the wait on done plus the join at most 5 seconds more.
C2_WaitBounds ==
    /\ pc = "wait" => now - timing.start <= SessionBudget
    /\ pc \in {"join", "returned"} =>
         /\ timing.waitEnd - timing.start <= SessionBudget
         /\ now - timing.start <= SessionBudget + JOIN_TIMEOUT

\* the deadline passed with no partition idle, the join timed out too
C2_Witness ==
    /\ pc = "returned"
    /\ Cardinality(partition_ids) = MaxPartitions
    /\ idle_partitions = {}
    /\ now - timing.start = SessionBudget + JOIN_TIMEOUT

\* a step of the receive thread that is one pass of the for loop of
\* on_event_batch
LoopPass ==
    /\ cb.status \in {"called", "loop"}
    /\ cb'.status \in {"loop", "count", "raised"}
    /\ <<cb, all_records>>' # <<cb, all_records>>

\* C3: a pass of the loop over a malformed event (anything but a JSON object
\* carrying a records sequence) prints exactly one warning, leaves the buffer
\* alone and goes on with the loop; a pass over a well-formed event appends
\* its records and prints no warning; no pass leaves the callback by an
\* exception.
C3_MalformedEventSkipped ==
    [][LoopPass =>
         /\ cb'.status # "raised"
         /\ cb'.last # "records" =>
              cb'.status = "loop" /\ cb'.warned /\ all_records' = all_records
         /\ cb'.last = "records" =>
              /\ ~cb'.warned
              /\ Len(all_records') = Len(all_records) + cb'.count
              /\ SubSeq(all_records', 1, Len(all_records)) = all_records]_vars

\* C4: when the probe fails the connection has been closed once, the process
\* has exited with a non-zero status, the receive thread was never created,
\* no callback has run and nothing was returned.
C4_ProbeFailure ==
    pc = "exited" =>
        /\ closeCount = 1
        /\ exitStatus = <<EXIT_FAILURE>>
        /\ EXIT_FAILURE # 0
        /\ thread = "none"
        /\ cb = NoCallback
        /\ idle_partitions = {} /\ ~done
        /\ all_records = <<>> /\ events_received = 0
        /\ ~result.returned

C4_Witness == pc = "exited" /\ closeCount = 1 /\ exitStatus # NoExit

\* C5: when the last discovered partition reports while the foreground thread
\* waits on done, done is set by that report and every record delivered so
\* far is in the buffer that will be returned; and from then on no time passes
\* in that wait.
C5_StopsAtLastReport ==
    [][/\ (pc = "wait" /\ partition_ids # {} /\ ~AllReported /\ AllReported') =>
            /\ done'
            /\ {all_records'[i][2] : i \in 1..Len(all_records')} = 1..delivered'
       /\ (pc = "wait" /\ partition_ids # {} /\ AllReported) => now' = now]_vars

\* C6: every session ends: read_from_eventhub returns or the process exits.
C6_Terminates == <>Terminated

\* the session ended although no partition ever reported and the receive loop
\* outlived close
C6_Witness ==
    /\ pc = "returned"
    /\ partition_ids # {}
    /\ idle_partitions = {}
    /\ timing.timedOut
    /\ thread = "alive"

\* C7: past the probe, the connection is not closed while the foreground
\* thread waits on done, has been closed exactly once while it joins and after
\* it returned, and the join lasts at most 5 seconds.
C7_CloseOnceBoundedJoin ==
    /\ pc \in {"start", "wait"} => closeCount = 0
    /\ pc \in {"join", "returned"} =>
         /\ closeCount = 1
         /\ now - timing.waitEnd <= JOIN_TIMEOUT
         /\ timing.joinDeadline = timing.waitEnd + JOIN_TIMEOUT

\* the wait ended by the signal, and the join ran into its timeout
C7_Witness ==
    /\ pc = "join"
    /\ ~timing.timedOut
    /\ closeCount = 1
    /\ thread = "alive"
    /\ now = timing.waitEnd + JOIN_TIMEOUT

\* C8: when the deadline ends the wait the session goes on to close, join and
\* return the buffer; the process exits only when the probe failed.
C8_TimeoutIsNotFailure ==
    /\ timing.timedOut => pc \in {"join", "returned"} /\ exitStatus = NoExit
    /\ pc = "returned" =>
         result.returned /\ exitStatus = NoExit /\ result.len <= Len(all_records)
    /\ exitStatus # NoExit => pc = "exited" /\ thread = "none" /\ ~timing.timedOut

\* returned after the deadline, with what had been collected
C8_Witness ==
    /\ pc = "returned"
    /\ timing.timedOut
    /\ ~done
    /\ result.len > 0
    /\ exitStatus = NoExit

\* C9: once read_from_eventhub has returned all_records, no callback changes
\* that list.
C9_ReturnedBufferFrozen == [][pc = "returned" => all_records' = all_records]_vars

\* C10: on_error for a partition does to idle_partitions and done what an
\* empty batch of that partition does, leaves the buffer and the counter
\* alone, leaves the session running, and sets done when all the other
\* partitions are idle already.
C10_ErrorLikeEmptyBatch ==
    [][\A p \in partition_ids :
         OnErrorFor(p) =>
           /\ idle_partitions' = IdleAfterEmptyBatch(p)
           /\ done' = DoneAfterEmptyBatch(p)
           /\ UNCHANGED <<all_records, events_received>>
           /\ thread' = "alive" /\ exitStatus' = NoExit /\ cb'.status = "none"
           /\ (partition_ids \ {p}) \subseteq idle_partitions => done']_vars

\* the error of one partition completed the drain of two
C10_Witness ==
    /\ cb.last = "error"
    /\ Cardinality(partition_ids) = 2
    /\ idle_partitions = partition_ids
    /\ done
    /\ pc = "wait"

\* C11: when read_from_eventhub has returned, the advisory note was printed
\* if and only if the list it returns held no record and no connection string
\* was used; the session that printed it returned its list and exited with no
\* status.
C11_AdvisoryIffNoRecords ==
    pc = "returned" =>
        /\ result.advisory <=> (result.len = 0 /\ ~result.using_connection_string)
        /\ result.returned
        /\ exitStatus = NoExit

\* main has ended
MainEnded == mpc \in {"returned", "exited"}

\* C12: when main has loaded, with load_events, a file that save_events wrote
\* last, the list it got is the list that was saved, element for element and
\* in the same order, whatever its length.
C12_RoundTrip ==
    (MainEnded /\ ran = <<"file">> /\ args.file \in DOMAIN lastSaved) =>
        /\ mpc = "returned"
        /\ main_records = lastSaved[args.file]

\* a list of two different records was saved and has been loaded again
C12_Witness ==
    /\ mpc = "returned"
    /\ ran = <<"file">>
    /\ args.file \in DOMAIN lastSaved
    /\ Len(lastSaved[args.file][2]) >= 2
    /\ lastSaved[args.file][2][1] # lastSaved[args.file][2][2]

\* d has the key: key in d
HasKey(d, key) == \E i \in 1..Len(d[2]) : d[2][i][1] = key

\* C13: when main has loaded, with load_events, a file whose text is a JSON
\* object with a "records" key, it got the value of that key; when the text
\* is a bare top-level array, it got that array, and load_events did not fail.
C13_LoadAcceptsBothForms ==
    (MainEnded /\ ran = <<"file">> /\ args.file \in DOMAIN files
         /\ loads(files[args.file]).ok) =>
        LET data == loads(files[args.file]).value
        IN /\ (IsDict(data) /\ HasKey(data, "records")) =>
                 /\ mpc = "returned"
                 /\ main_records = Get(data, "records", PyNone)
           /\ IsList(data) =>
                 /\ mpc = "returned"
                 /\ main_records = data

\* the command line selects a workflow that has all it needs: two files to
\* compare, one file to print, or an event hub name with a namespace or a
\* connection string
CompleteWorkflow(a) ==
    \/ a.compare # NoCompare
    \/ Truthy(a.file)
    \/ /\ Truthy(a.eventhub_name)
       /\ Truthy(a.eventhub_namespace) \/ Truthy(a.connection_string)

\* C14: a run of main starts at most one workflow; it calls
\* read_from_eventhub only with --eventhub-name and a namespace or a
\* connection string on the command line; and with a command line that
\* selects no complete workflow it ends by an exit with a non-zero status,
\* having started no workflow and no session.
C14_OneWorkflowOrUsage ==
    /\ Len(ran) <= 1
    /\ (mpc = "live" \/ ran = <<"live">>) =>
         /\ Truthy(args.eventhub_name)
         /\ Truthy(args.eventhub_namespace) \/ Truthy(args.connection_string)
    /\ (MainEnded /\ ~CompleteWorkflow(args)) =>
         /\ mpc = "exited"
         /\ mainExit # NoExit
         /\ \A i \in 1..Len(mainExit) : mainExit[i] # 0
         /\ ran = <<>>

\* a connection string and an empty --eventhub-name: the usage error
C14_Witness ==
    /\ mpc = "exited"
    /\ mainExit = <<EXIT_USAGE>>
    /\ args.connection_string = "cs"
    /\ args.eventhub_name = ""
    /\ ran = <<>>

\* C15: in every state of a session the idle set holds only identifiers of
\* discovered partitions, and it never has more elements than there are
\* discovered partitions.
C15_IdleWithinDiscovered ==
    /\ idle_partitions \subseteq partition_ids
    /\ Cardinality(idle_partitions) <= Cardinality(partition_ids)

\* a step in which the receive thread enters on_event_batch with a batch that
\* has events, or is inside it
NonEmptyBatchStep == cb' # cb /\ (InCallback \/ cb'.status = "called")

\* C16: an empty batch of partition p adds p and nothing else to the idle set
\* and leaves all_records and events_received as they are; no step of
\* on_event_batch for a batch with events changes the idle set or done.
C16_BatchFrame ==
    [][/\ \A p \in partition_ids :
            OnEmptyBatchFor(p) =>
              /\ idle_partitions' = idle_partitions \cup {p}
              /\ UNCHANGED <<all_records, events_received>>
       /\ NonEmptyBatchStep => UNCHANGED <<idle_partitions, done>>]_vars

\* partition "1" reported an empty batch after two records had come in; the
\* other partition is not idle and done is not set
C16_Witness ==
    /\ cb.last = "empty"
    /\ partition_ids = {"0", "1"}
    /\ idle_partitions = {"1"}
    /\ Len(all_records) = 2
    /\ events_received = 2
    /\ ~done

\* C17: no step takes an identifier out of the idle set; an empty batch or an
\* error of a partition that is in the set already changes neither the set
\* nor done; once done is set it stays set.
C17_DrainMonotone ==
    [][/\ idle_partitions \subseteq idle_partitions'
       /\ done => done'
       /\ \A p \in partition_ids \cap idle_partitions :
            (OnEmptyBatchFor(p) \/ OnErrorFor(p)) =>
                UNCHANGED <<idle_partitions, done>>]_vars

\* a batch with events was handled after both partitions had drained: the
\* idle set and done are as they were
C17_Witness ==
    /\ done
    /\ cb.last = "batch"
    /\ Cardinality(partition_ids) = 2
    /\ idle_partitions = partition_ids
    /\ Len(all_records) > 0

\* C18: every step leaves the elements all_records has in place, and the
\* records of each partition stand in all_records in the order of their
\* delivery.
C18_AppendOnlyInOrder ==
    [][/\ Len(all_records') >= Len(all_records)
       /\ SubSeq(all_records', 1, Len(all_records)) = all_records
       /\ \A i, j \in 1..Len(all_records') :
            (i < j /\ all_records'[i][1] = all_records'[j][1]) =>
                all_records'[i][2] < all_records'[j][2]]_vars

\* two events of one partition, one record each, both counted
C18_Witness ==
    /\ Len(all_records) = 2
    /\ all_records[1][1] = all_records[2][1]
    /\ events_received = 2
    /\ cb.status = "loop"

\* C19: whenever the receive thread is in no callback, events_received is the
\* length of all_records; and when read_from_eventhub has returned, the count
\* it printed, and the zero it tested for the advisory, are the length the
\* returned list had at that moment.
C19_CountIsLength ==
    /\ ~InCallback => events_received = Len(all_records)
    /\ pc = "returned" =>
         /\ result.printed = result.len
         /\ (result.printed = 0) <=> (result.len = 0)

\* no partition was discovered, or some discovered partition has produced
\* neither an empty batch nor an error so far
Unsettled == partition_ids = {} \/ ~AllReported

\* C20: done is not set at construction and becomes set only in a step that
\* is an empty batch or an error callback; as long as no partition was
\* discovered or some discovered partition has not reported, done is unset,
\* and the wait on done, if over, ended at the deadline of
\* max_wait_time * partition_count + 30 seconds (30 with no partition).
C20_SignalOnlyFromReports ==
    [][/\ pc' = "start" => ~done'
       /\ (done' /\ ~done) => (cb'.status = "none" /\ cb'.last \in {"empty", "error"})
       /\ (Started' /\ Unsettled') => ~done'
       /\ (pc' \in {"join", "returned"} /\ Unsettled') =>
            /\ timing'.timedOut
            /\ timing'.waitEnd - timing'.start = SessionBudget'
            /\ partition_ids' = {} => timing'.waitEnd - timing'.start = FIXED_GRACE]_vars

====
